---- MODULE Spec2Model ----
(***************************************************************************)
(* Calibration-Demo: least-squares calibration of four load cells.         *)
(*                                                                         *)
(* The program computes with float64.  A float64 value is modelled as an   *)
(* exact rational number, and every float64 operation as the exact         *)
(* operation followed by rounding to the nearest representable value       *)
(* (ties to even).  The significand has Prec bits (float64: 53) and the    *)
(* representable values are multiples of 2^-FracBits (float64: 2^-1074);   *)
(* the magnitudes of the model stay far below the largest finite value, so *)
(* infinities and NaN do not arise.                                        *)
(*                                                                         *)
(* arith names the arithmetic of a run:                                    *)
(*   "round"  every operation rounds (the gc compiler on amd64);           *)
(*   "fused"  x*y + z rounds once (Go permits fusing; arm64, GOAMD64=v3);  *)
(*   "exact"  nothing rounds: the real-number reading of the algorithm.    *)
(***************************************************************************)
EXTENDS Integers, Sequences, FiniteSets, TLC

Prec == 5
FracBits == 24

\* ------------------------------------------------------------ rationals
\* A number is <<n, d, a, b>> = (n / d) * 2^a * 5^b with d >= 1, n and d
\* coprime and neither divisible by 2 or 5; zero is <<0, 1, 0, 0>>.

IAbs(i) == IF i < 0 THEN -i ELSE i

IMin(i, j) == IF i < j THEN i ELSE j

IMax(i, j) == IF i < j THEN j ELSE i

RECURSIVE Gcd(_, _)
Gcd(x, y) == IF y = 0 THEN x ELSE Gcd(y, x % y)

RECURSIVE Val(_, _)
Val(n, f) == IF n % f = 0 THEN 1 + Val(n \div f, f) ELSE 0

Zero == <<0, 1, 0, 0>>

Norm(n, d, a, b) ==
    IF n = 0 THEN Zero
    ELSE LET sn == IF (n < 0) # (d < 0) THEN -1 ELSE 1
             g  == Gcd(IAbs(n), IAbs(d))
             n1 == IAbs(n) \div g
             d1 == IAbs(d) \div g
             na == Val(n1, 2)
             n2 == n1 \div (2 ^ na)
             nb == Val(n2, 5)
             da == Val(d1, 2)
             d2 == d1 \div (2 ^ da)
             db == Val(d2, 5)
         IN  <<sn * (n2 \div (5 ^ nb)), d2 \div (5 ^ db), a + na - da, b + nb - db>>

Q(i) == Norm(i, 1, 0, 0)

QNeg(x) == <<-x[1], x[2], x[3], x[4]>>

QSign(x) == IF x[1] < 0 THEN -1 ELSE IF x[1] = 0 THEN 0 ELSE 1

QMul(x, y) ==
    IF x[1] = 0 \/ y[1] = 0 THEN Zero
    ELSE LET g1 == Gcd(IAbs(x[1]), y[2])
             g2 == Gcd(IAbs(y[1]), x[2])
         IN  <<(x[1] \div g1) * (y[1] \div g2), (x[2] \div g2) * (y[2] \div g1),
               x[3] + y[3], x[4] + y[4]>>

QInv(x) == <<QSign(x) * x[2], IAbs(x[1]), -x[3], -x[4]>>

QDiv(x, y) == QMul(x, QInv(y))

QAdd(x, y) ==
    IF x[1] = 0 THEN y
    ELSE IF y[1] = 0 THEN x
    ELSE LET a0 == IMin(x[3], y[3])
             b0 == IMin(x[4], y[4])
             g  == Gcd(x[2], y[2])
             xn == x[1] * (2 ^ (x[3] - a0)) * (5 ^ (x[4] - b0))
             yn == y[1] * (2 ^ (y[3] - a0)) * (5 ^ (y[4] - b0))
         IN  Norm(xn * (y[2] \div g) + yn * (x[2] \div g), (x[2] \div g) * y[2], a0, b0)

QSub(x, y) == QAdd(x, QNeg(y))


\* ------------------------------------------------------------- rounding
\* FloorLog2(n, d): the L with 2^L <= n/d < 2^(L+1), for n, d > 0.
RECURSIVE Log2Up(_, _, _)
Log2Up(n, d, l) == IF d * (2 ^ (l + 1)) <= n THEN Log2Up(n, d, l + 1) ELSE l

RECURSIVE Log2Down(_, _, _)
Log2Down(n, d, l) == IF n * (2 ^ l) >= d THEN -l ELSE Log2Down(n, d, l + 1)

FloorLog2(n, d) == IF n >= d THEN Log2Up(n, d, 0) ELSE Log2Down(n, d, 1)

\* x < y, decided on the signs and, for equal signs, on whether the
\* quotient r is below one; 4^k <= 5^k < 8^k settles most cases on the
\* exponents alone.
BelowOne(r) ==
    LET l  == FloorLog2(IAbs(r[1]), r[2]) + r[3]
        lo == l + (IF r[4] > 0 THEN 2 * r[4] ELSE 3 * r[4])
        hi == l + 1 + (IF r[4] > 0 THEN 3 * r[4] ELSE 2 * r[4])
        n  == IAbs(r[1]) * (IF r[4] > 0 THEN 5 ^ r[4] ELSE 1)
        d  == r[2] * (IF r[4] < 0 THEN 5 ^ (-r[4]) ELSE 1)
    IN  IF lo >= 0 THEN FALSE
        ELSE IF hi <= 0 THEN TRUE
        ELSE FloorLog2(n, d) + r[3] < 0

QLess(x, y) ==
    IF QSign(x) # QSign(y) THEN QSign(x) < QSign(y)
    ELSE IF QSign(x) = 0 THEN FALSE
    ELSE IF QSign(x) > 0 THEN BelowOne(QDiv(x, y))
    ELSE BelowOne(QDiv(y, x))

\* The float64 nearest to x: Prec significant bits, on the grid 2^-FracBits,
\* ties to the even significand.
RoundNearest(x) ==
    IF x[1] = 0 THEN Zero
    ELSE LET n  == IAbs(x[1]) * (IF x[4] > 0 THEN 5 ^ x[4] ELSE 1)
             d  == x[2] * (IF x[4] < 0 THEN 5 ^ (-x[4]) ELSE 1)
             l  == FloorLog2(n, d) + x[3]
             q  == IMax(l - Prec + 1, -FracBits)
             sh == x[3] - q
             nu == IF sh >= 0 THEN n * (2 ^ sh) ELSE n
             de == IF sh >= 0 THEN d ELSE d * (2 ^ (-sh))
             k  == nu \div de
             r  == nu % de
             m  == IF 2 * r > de \/ (2 * r = de /\ k % 2 = 1) THEN k + 1 ELSE k
         IN  IF l < -FracBits - 1 THEN Zero
             ELSE Norm(QSign(x) * m, 1, q, 0)

Rnd(arith, x) == IF arith = "exact" THEN x ELSE RoundNearest(x)

\* ------------------------------------------------- float64 operations
Add(arith, x, y) == Rnd(arith, QAdd(x, y))

Sub(arith, x, y) == Rnd(arith, QSub(x, y))

Mul(arith, x, y) == Rnd(arith, QMul(x, y))

Div(arith, x, y) == Rnd(arith, QDiv(x, y))

\* s + x*y and s - x*y as Go evaluates them: one rounding when fused.
MulAdd(arith, s, x, y) ==
    IF arith = "fused" THEN Rnd(arith, QAdd(s, QMul(x, y)))
    ELSE Add(arith, s, Mul(arith, x, y))

MulSub(arith, s, x, y) ==
    IF arith = "fused" THEN Rnd(arith, QSub(s, QMul(x, y)))
    ELSE Sub(arith, s, Mul(arith, x, y))

abs(a) == IF QSign(a) < 0 THEN QNeg(a) ELSE a

\* ----------------------------------------------------- linear solver
ErrZeroPivot == "matrix is singular (zero pivot)"

ErrBackSubstitution == "singular matrix during back substitution"

ZeroVec == [i \in 0..3 |-> Zero]

\* solve4x4: the augmented matrix [A | b].
Augment(A, b) == [i \in 0..3 |-> [j \in 0..4 |-> IF j < 4 THEN A[i][j] ELSE b[i]]]

\* The pivot search of a column: rows col+1..3 in order, a strictly larger
\* absolute value replaces the pivot (maxAbs is abs(m[pivot][col])).
RECURSIVE PivotScan(_, _, _, _)
PivotScan(m, col, r, pivot) ==
    IF r > 3 THEN pivot
    ELSE IF QLess(abs(m[pivot][col]), abs(m[r][col]))
         THEN PivotScan(m, col, r + 1, r)
         ELSE PivotScan(m, col, r + 1, pivot)

FindPivot(m, col) == PivotScan(m, col, col + 1, col)

\* The zero test on the diagonal entry alone, without the pivot search.
DiagonalAbs(m, col) == abs(m[col][col])

MaxAbs(m, col) == abs(m[FindPivot(m, col)][col])

SwapRows(m, i, j) == [m EXCEPT ![i] = m[j], ![j] = m[i]]

\* The elimination with the right-hand side column left out.
EliminateNoRhs(arith, m, col) ==
    [r \in 0..3 |->
        IF r <= col THEN m[r]
        ELSE LET factor == Div(arith, m[r][col], m[col][col])
             IN  [c \in DOMAIN m[r] |->
                    IF c < col \/ c = 4 THEN m[r][c]
                    ELSE MulSub(arith, m[r][c], factor, m[col][c])]]

\* The elimination started at the pivot row instead of the row below it.
EliminateFromPivotRow(arith, m, col) ==
    [r \in 0..3 |->
        IF r < col THEN m[r]
        ELSE LET factor == Div(arith, m[r][col], m[col][col])
             IN  [c \in DOMAIN m[r] |->
                    IF c < col THEN m[r][c]
                    ELSE MulSub(arith, m[r][c], factor, m[col][c])]]

\* Rows below col lose factor times the pivot row, from column col on.
EliminateBelow(arith, m, col) ==
    [r \in 0..3 |->
        IF r <= col THEN m[r]
        ELSE LET factor == Div(arith, m[r][col], m[col][col])
             IN  [c \in DOMAIN m[r] |->
                    IF c < col THEN m[r][c]
                    ELSE MulSub(arith, m[r][c], factor, m[col][c])]]

\* One iteration of the forward elimination loop on a column with a pivot.
ForwardStep(arith, m, col) ==
    EliminateBelow(arith, SwapRows(m, col, FindPivot(m, col)), col)

RECURSIVE BackSum(_, _, _, _, _, _)
BackSum(arith, aug, x, i, j, sum) ==
    IF j > 3 THEN sum
    ELSE BackSum(arith, aug, x, i, j + 1, MulSub(arith, sum, aug[i][j], x[j]))

RECURSIVE BackLoop(_, _, _, _)
BackLoop(arith, aug, x, i) ==
    IF i < 0 THEN [x |-> x, err |-> ""]
    ELSE IF aug[i][i] = Zero THEN [x |-> ZeroVec, err |-> ErrBackSubstitution]
    ELSE BackLoop(arith, aug,
                  [x EXCEPT ![i] = Div(arith, BackSum(arith, aug, x, i, i + 1, aug[i][4]),
                                       aug[i][i])],
                  i - 1)

BackSubstitute(arith, aug) == BackLoop(arith, aug, ZeroVec, 3)

RECURSIVE SolveLoop(_, _, _)
SolveLoop(arith, aug, col) ==
    IF col > 3 THEN BackSubstitute(arith, aug)
    ELSE IF MaxAbs(aug, col) = Zero THEN [x |-> ZeroVec, err |-> ErrZeroPivot]
    ELSE SolveLoop(arith, ForwardStep(arith, aug, col), col + 1)

solve4x4(arith, A, b) == SolveLoop(arith, Augment(A, b), 0)

\* det4x4 without the sign flip on a row swap.
RECURSIVE DetLoopNoSign(_, _, _, _, _)
DetLoopNoSign(arith, m, det, sign, col) ==
    IF col > 3 THEN [det |-> Mul(arith, det, sign), zeroPivot |-> FALSE]
    ELSE LET pivot == FindPivot(m, col)
             sw    == SwapRows(m, col, pivot)
         IN  IF abs(m[pivot][col]) = Zero THEN [det |-> Zero, zeroPivot |-> TRUE]
             ELSE DetLoopNoSign(arith, EliminateBelow(arith, sw, col),
                                Mul(arith, det, sw[col][col]), sign, col + 1)

\* det4x4: the same elimination, the product of the pivots and the sign of
\* the row swaps; zeroPivot tells that the early return 0.0 was taken.
RECURSIVE DetLoop(_, _, _, _, _)
DetLoop(arith, m, det, sign, col) ==
    IF col > 3 THEN [det |-> Mul(arith, det, sign), zeroPivot |-> FALSE]
    ELSE LET pivot == FindPivot(m, col)
             sw    == SwapRows(m, col, pivot)
         IN  IF abs(m[pivot][col]) = Zero THEN [det |-> Zero, zeroPivot |-> TRUE]
             ELSE DetLoop(arith, EliminateBelow(arith, sw, col),
                          Mul(arith, det, sw[col][col]),
                          IF pivot # col THEN QNeg(sign) ELSE sign,
                          col + 1)

DetRun(arith, A) == DetLoop(arith, A, Q(1), Q(1), 0)

det4x4(arith, A) == DetRun(arith, A).det

\* ------------------------------------------------- calibration solver
Measurements(cal) ==
    [k \in 0..4 |-> IF k = 0 THEN cal.OnCell0
                    ELSE IF k = 1 THEN cal.OnCell1
                    ELSE IF k = 2 THEN cal.OnCell2
                    ELSE IF k = 3 THEN cal.OnCell3
                    ELSE cal.OnCenter]

\* X: row k is measurement k minus the zero reference.
DesignMatrix(arith, cal) ==
    [k \in 0..4 |-> [j \in 0..3 |-> Sub(arith, Measurements(cal)[k][j], cal.Zero[j])]]

\* sum := 0.0; for k := 0..4 { sum += u(k) * v(k) }
RECURSIVE SumProducts(_, _, _, _, _)
SumProducts(arith, u, v, k, sum) ==
    IF k > 4 THEN sum
    ELSE SumProducts(arith, u, v, k + 1, MulAdd(arith, sum, u[k], v[k]))

Column(X, i) == [k \in 0..4 |-> X[k][i]]

NormalMatrix(arith, X) ==
    [i \in 0..3 |-> [j \in 0..3 |-> SumProducts(arith, Column(X, i), Column(X, j), 0, Zero)]]

\* b with y left unset: y[i] = W forgotten.
NormalRhsUnset(arith, X, W) ==
    [i \in 0..3 |-> SumProducts(arith, Column(X, i), [k \in 0..4 |-> Zero], 0, Zero)]

NormalRhs(arith, X, W) ==
    [i \in 0..3 |-> SumProducts(arith, Column(X, i), [k \in 0..4 |-> W], 0, Zero)]

\* ComputeFactors without the ridge block.
ApplyRidgeDropped(arith, A, ridge) == A

\* The ridge added to every entry of A instead of the diagonal.
ApplyRidgeAllEntries(arith, A, ridge) ==
    IF ridge # Zero
    THEN [i \in 0..3 |-> [j \in 0..3 |-> Add(arith, A[i][j], ridge)]]
    ELSE A

\* A[i][i] += ridge, under if ridge != 0.
ApplyRidge(arith, A, ridge) ==
    IF ridge # Zero
    THEN [i \in 0..3 |-> [j \in 0..3 |-> IF i = j THEN Add(arith, A[i][j], ridge) ELSE A[i][j]]]
    ELSE A

\* The A and b that ComputeFactors hands to solve4x4 and returns.
NormalOf(arith, X, W, ridge) ==
    [A |-> ApplyRidge(arith, NormalMatrix(arith, X), ridge), b |-> NormalRhs(arith, X, W)]

BuildNormal(arith, cal, ridge) ==
    NormalOf(arith, DesignMatrix(arith, cal), cal.CalibrationWeight, ridge)

\* ---------------------------------------------------- weight estimator
RECURSIVE WeightLoop(_, _, _, _, _, _)
WeightLoop(arith, adc, zero, factors, i, w) ==
    IF i > 3 THEN w
    ELSE WeightLoop(arith, adc, zero, factors, i + 1,
                    MulAdd(arith, w, factors[i], Sub(arith, adc[i], zero[i])))

\* The estimate over the absolute values of the deltas.
RECURSIVE WeightLoopAbs(_, _, _, _, _, _)
WeightLoopAbs(arith, adc, zero, factors, i, w) ==
    IF i > 3 THEN w
    ELSE WeightLoopAbs(arith, adc, zero, factors, i + 1,
                       MulAdd(arith, w, factors[i], abs(Sub(arith, adc[i], zero[i]))))

ComputeWeightAbs(arith, adc, zero, factors) == WeightLoopAbs(arith, adc, zero, factors, 0, Zero)

ComputeWeight(arith, adc, zero, factors) == WeightLoop(arith, adc, zero, factors, 0, Zero)

\* ---------------------------------------------------------- diagnostics
\* main: est of one calibration row, the residual sum of squares over the
\* five rows, the residual variance, det(A) and the error determinant.
\* resid := cal.CalibrationWeight - est, est the estimate of calibration row k.
Residual(arith, cal, factors, k) ==
    Sub(arith, cal.CalibrationWeight,
        WeightLoop(arith, Measurements(cal)[k], cal.Zero, factors, 0, Zero))

\* rss += resid * resid
SquareAdd(arith, rss, resid) == MulAdd(arith, rss, resid, resid)

RECURSIVE RssLoop(_, _, _, _, _)
RssLoop(arith, cal, factors, k, rss) ==
    IF k > 4 THEN rss
    ELSE RssLoop(arith, cal, factors, k + 1,
                 SquareAdd(arith, rss, Residual(arith, cal, factors, k)))

NumRows == 5

NumParams == 4

\* residualVar = rss / df if df > 0, else rss.
ResidualVar(arith, rss, df) == IF QSign(df) > 0 THEN Div(arith, rss, df) ELSE rss

\* errorDet := detA * residualVar
ErrorDet(arith, rss, df, residualVar, detA) ==
    [rss |-> rss, df |-> df, residualVar |-> residualVar, detA |-> detA,
     errorDet |-> Mul(arith, detA, residualVar)]

DiagnosticsOf(arith, rss, df, detA) ==
    ErrorDet(arith, rss, df, ResidualVar(arith, rss, df), detA)

\* The diagnostics dividing by the number of rows: the parameters not subtracted.
DiagnosticsRowsAsDf(arith, cal, factors, A) ==
    DiagnosticsOf(arith, RssLoop(arith, cal, factors, 0, Zero), Q(NumRows), det4x4(arith, A))

Diagnostics(arith, cal, factors, A) ==
    DiagnosticsOf(arith, RssLoop(arith, cal, factors, 0, Zero), Q(NumRows - NumParams),
                  det4x4(arith, A))

\* The constant 1e-6 as a float64, and CalibrationOK of the JSON result.
OkThreshold(arith) == Rnd(arith, Norm(1, 1, -6, -6))

CalibrationOK(arith, residualVar) == QLess(residualVar, OkThreshold(arith))

\* main's verification loop: contrib[i] = factors[i] * delta[i], summed.
RECURSIVE ContribLoop(_, _, _, _, _, _)
ContribLoop(arith, adr, zero, factors, i, weight) ==
    IF i > 3 THEN weight
    ELSE ContribLoop(arith, adr, zero, factors, i + 1,
                     Add(arith, weight, Mul(arith, factors[i], Sub(arith, adr[i], zero[i]))))

RowWeight(arith, adr, zero, factors) == ContribLoop(arith, adr, zero, factors, 0, Zero)

\* -------------------------------------------------------------- inputs
Ariths == {"exact", "round", "fused"}

V4(t) == [i \in 0..3 |-> Q(t[i + 1])]

\* t scaled by 2^k.
V4Scaled(t, k) == [i \in 0..3 |-> Norm(t[i + 1], 1, k, 0)]

TAdd(t, u) == <<t[1] + u[1], t[2] + u[2], t[3] + u[3], t[4] + u[4]>>

Unit(i, c) == [j \in 1..4 |-> IF j = i THEN c ELSE 0]

Cal(W, zero, m) ==
    [CalibrationWeight |-> Q(W), Zero |-> V4(zero),
     OnCell0 |-> V4(TAdd(zero, m[1])), OnCell1 |-> V4(TAdd(zero, m[2])),
     OnCell2 |-> V4(TAdd(zero, m[3])), OnCell3 |-> V4(TAdd(zero, m[4])),
     OnCenter |-> V4(TAdd(zero, m[5]))]

Zeros == {<<0, 0, 0, 0>>, <<8, 6, 8, 4>>}

\* The scenario of the specification: cells 100 on one channel each, center 25.
Scenario ==
    Cal(100, <<0, 0, 0, 0>>,
        <<Unit(1, 100), Unit(2, 100), Unit(3, 100), Unit(4, 100), <<25, 25, 25, 25>>>>)

\* All five placements read the same delta.
IdenticalDeltas == {<<1, 3, 5, 7>>, <<4, 4, 4, 4>>, <<2, 1, 0, 0>>, <<0, 0, 0, 0>>,
                    <<3, 5, 7, 1>>, <<0, 2, 2, 1>>}

IdenticalSets == {Cal(4, z, <<d, d, d, d, d>>) : z \in Zeros, d \in IdenticalDeltas}

\* One load per cell, with or without cross-talk into the next channel, and
\* a center placement.
CellScales == {<<4, 4, 4, 4>>, <<2, 1, 2, 4>>, <<2, 4, 4, 2>>}

Centers == {<<1, 1, 1, 1>>, <<1, 1, 2, 0>>, <<0, 0, 0, 0>>, <<4, 0, 0, 0>>, <<1, 0, 0, 1>>}

CrossTalk == {0, 1}

CellRow(i, c, x) == TAdd(Unit(i, c[i]), Unit((i % 4) + 1, x))

CellSets ==
    {Cal(4, <<8, 6, 8, 4>>,
         <<CellRow(1, c, x), CellRow(2, c, x), CellRow(3, c, x), CellRow(4, c, x), e>>) :
        c \in CellScales, e \in Centers, x \in CrossTalk}

Ridges == {Zero, Norm(1, 1, -2, 0), Q(1)}

\* The runs: a dataset and the value of CAL_RIDGE.
Runs ==
    (IdenticalSets \X Ridges) \cup (CellSets \X {Zero, Q(1)}) \cup {<<Scenario, Zero>>}

\* ---------------------------------------------------------------- state
VARIABLES arith, pc, exact, cal, ridge, A, b, aug, col, swaps, sol, fit, diag, out,
          detA, detSwap, est

vars == <<arith, pc, exact, cal, ridge, A, b, aug, col, swaps, sol, fit, diag, out,
          detA, detSwap, est>>

ZeroMat == [i \in 0..3 |-> ZeroVec]

NoCal == Cal(0, <<0, 0, 0, 0>>, <<Unit(1, 0), Unit(1, 0), Unit(1, 0), Unit(1, 0), Unit(1, 0)>>)

NoSol == [x |-> ZeroVec, err |-> ""]

NoErr == [msg |-> "", cause |-> ""]

NoFit == [factors |-> ZeroVec, err |-> NoErr]

NoDiag == [rss |-> Zero, df |-> Zero, residualVar |-> Zero, detA |-> Zero, errorDet |-> Zero]

NoOut == [stdout |-> <<>>, stderr |-> <<>>, files |-> {}, exit |-> -1]

NoDet == [det |-> Zero, zeroPivot |-> FALSE]

NoSwap == [i |-> 0, j |-> 0, run |-> NoDet]

NoEst == [zero |-> <<0, 0, 0, 0>>, factors |-> ZeroVec, todo |-> <<>>, w |-> <<>>]

\* main after the calibration file and CAL_RIDGE are read.
Init ==
    /\ arith \in Ariths
    /\ \E run \in Runs : cal = run[1] /\ ridge = run[2]
    /\ pc = "main"
    /\ exact = TRUE
    /\ A = ZeroMat /\ b = ZeroVec /\ aug = Augment(ZeroMat, ZeroVec)
    /\ col = 0 /\ swaps = 0
    /\ sol = NoSol /\ fit = NoFit /\ diag = NoDiag /\ out = NoOut
    /\ detA = NoDet /\ detSwap = NoSwap /\ est = NoEst

\* Whether the values a step computes are those of exact arithmetic.
Same(val, ideal) == arith = "exact" \/ val = ideal

\* main calls ComputeFactors, which builds A and b and applies the ridge.
CallComputeFactors ==
    /\ pc = "main"
    /\ LET n == BuildNormal(arith, cal, ridge)
       IN  /\ A' = n.A
           /\ b' = n.b
           /\ exact' = (exact /\ Same(n, BuildNormal("exact", cal, ridge)))
    /\ pc' = "solve"
    /\ UNCHANGED <<arith, cal, ridge, aug, col, swaps, sol, fit, diag, out, detA, detSwap, est>>

\* solve4x4 copies A and b into aug.
SolveEntry ==
    /\ pc = "solve"
    /\ aug' = Augment(A, b)
    /\ col' = 0
    /\ swaps' = 0
    /\ pc' = "elim"
    /\ UNCHANGED <<arith, exact, cal, ridge, A, b, sol, fit, diag, out, detA, detSwap, est>>

\* One iteration of the forward elimination loop whose column has a pivot.
EliminateColumn ==
    /\ pc = "elim"
    /\ MaxAbs(aug, col) # Zero
    /\ aug' = ForwardStep(arith, aug, col)
    /\ exact' = (exact /\ Same(aug', ForwardStep("exact", aug, col)))
    /\ swaps' = IF FindPivot(aug, col) # col THEN swaps + 1 ELSE swaps
    /\ col' = col + 1
    /\ pc' = IF col = 3 THEN "backsub" ELSE "elim"
    /\ UNCHANGED <<arith, cal, ridge, A, b, sol, fit, diag, out, detA, detSwap, est>>

\* The iteration whose column is zero from the diagonal down.
ZeroPivot ==
    /\ pc = "elim"
    /\ MaxAbs(aug, col) = Zero
    /\ sol' = [x |-> ZeroVec, err |-> ErrZeroPivot]
    /\ pc' = "solved"
    /\ UNCHANGED <<arith, exact, cal, ridge, A, b, aug, col, swaps, fit, diag, out, detA, detSwap, est>>

BackSubstitution ==
    /\ pc = "backsub"
    /\ sol' = BackSubstitute(arith, aug)
    /\ exact' = (exact /\ Same(sol', BackSubstitute("exact", aug)))
    /\ pc' = "solved"
    /\ UNCHANGED <<arith, cal, ridge, A, b, aug, col, swaps, fit, diag, out, detA, detSwap, est>>

\* ComputeFactors after solve4x4: the wrapped error, or the factors.
WrapError(err) == [msg |-> "could not solve normal equations", cause |-> err]

\* ComputeFactors swallowing the solver's error.
ComputeFactorsSwallow ==
    /\ pc = "solved"
    /\ fit' = [factors |-> sol.x, err |-> NoErr]
    /\ pc' = "fitted"
    /\ UNCHANGED <<arith, exact, cal, ridge, A, b, aug, col, swaps, sol, diag, out,
                   detA, detSwap, est>>

ComputeFactorsReturn ==
    /\ pc = "solved"
    /\ fit' = IF sol.err # "" THEN [factors |-> ZeroVec, err |-> WrapError(sol.err)]
              ELSE [factors |-> sol.x, err |-> NoErr]
    /\ pc' = "fitted"
    /\ UNCHANGED <<arith, exact, cal, ridge, A, b, aug, col, swaps, sol, diag, out, detA, detSwap, est>>

\* main on a calculation error: a line on stderr and exit status 1.
MainFail ==
    /\ pc = "fitted"
    /\ fit.err # NoErr
    /\ out' = [out EXCEPT !.stderr = Append(@, [tag |-> "calculation error", err |-> fit.err]),
                          !.exit = 1]
    /\ pc' = "exit"
    /\ UNCHANGED <<arith, exact, cal, ridge, A, b, aug, col, swaps, sol, fit, diag, detA, detSwap, est>>

VerificationWeights(f) ==
    [k \in 0..4 |-> RowWeight(arith, Measurements(cal)[k], cal.Zero, f)]

\* main's report: the normal system if asked for, the factors, the
\* verification of the five rows, the diagnostics.
MainReport ==
    /\ pc = "fitted"
    /\ fit.err = NoErr
    /\ diag' = Diagnostics(arith, cal, fit.factors, A)
    /\ exact' = (exact /\ Same(diag', Diagnostics("exact", cal, fit.factors, A)))
    /\ \E printNormal \in BOOLEAN :
          out' = [out EXCEPT !.stdout =
                    (IF printNormal THEN <<[tag |-> "normal", A |-> A, b |-> b]>> ELSE <<>>)
                    \o <<[tag |-> "factors", factors |-> fit.factors],
                         [tag |-> "verification", weights |-> VerificationWeights(fit.factors)],
                         [tag |-> "diagnostics", diag |-> diag']>>]
    /\ pc' = "reported"
    /\ UNCHANGED <<arith, cal, ridge, A, b, aug, col, swaps, sol, fit, detA, detSwap, est>>

CalibrationResult ==
    [Factors |-> fit.factors, ResidualVar |-> diag.residualVar, RSS |-> diag.rss,
     DetA |-> diag.detA, ErrorDet |-> diag.errorDet, CalibrationW |-> cal.CalibrationWeight,
     CalibrationOK |-> CalibrationOK(arith, diag.residualVar)]

Readings == {V4(<<9, 7, 9, 5>>)}

\* main's output: the weight of the ADC reading under -apply, then output.txt,
\* or the JSON result under -json-out.
MainOutput ==
    /\ pc = "reported"
    /\ \E jsonOut \in {"", "result.json"}, apply \in BOOLEAN, adc \in Readings :
          LET reading == IF apply
                         THEN <<[tag |-> "reading", adc |-> adc,
                                 weight |-> RowWeight(arith, adc, cal.Zero, fit.factors)]>>
                         ELSE <<>>
              text    == <<[tag |-> "factors", factors |-> fit.factors]>> \o reading
          IN  out' = [out EXCEPT
                        !.stdout = @ \o reading,
                        !.files = IF jsonOut = ""
                                  THEN {[name |-> "output.txt", content |-> text]}
                                  ELSE {[name |-> jsonOut, content |-> <<CalibrationResult>>]},
                        !.exit = 0]
    /\ pc' = "exit"
    /\ UNCHANGED <<arith, exact, cal, ridge, A, b, aug, col, swaps, sol, fit, diag, detA, detSwap, est>>

Next ==
    \/ CallComputeFactors
    \/ SolveEntry
    \/ EliminateColumn
    \/ ZeroPivot
    \/ BackSubstitution
    \/ ComputeFactorsReturn
    \/ MainFail
    \/ MainReport
    \/ MainOutput

Spec == Init /\ [][Next]_vars

\* ---------------------------------------- properties of the pipeline
\* The delta of row k: the measurement minus the zero reference.
Delta(c, k) == [j \in 0..3 |-> QSub(Measurements(c)[k][j], c.Zero[j])]

IdenticalDeltas5(c) == \A k \in 1..4 : Delta(c, k) = Delta(c, 0)

\* C2: with all five deltas the same vector and ridge = 0, ComputeFactors
\* fails with the singular-matrix error of the forward elimination and
\* produces no factors.
C2_IdenticalDeltasFail ==
    (pc = "fitted" /\ IdenticalDeltas5(cal) /\ ridge = Zero) =>
        /\ fit.err # NoErr
        /\ fit.err.cause = ErrZeroPivot
        /\ fit.factors = ZeroVec

\* C3 (as amended): for every dataset and every ridge > 0, ComputeFactors
\* succeeds whenever the normal system and the elimination are computed
\* without rounding error.
C3_RidgeSucceedsUnrounded ==
    (pc = "fitted" /\ QSign(ridge) > 0 /\ exact) =>
        sol.err = "" /\ fit.err = NoErr

C3_Witness ==
    /\ pc = "fitted" /\ QSign(ridge) > 0 /\ exact
    /\ IdenticalDeltas5(cal) /\ Delta(cal, 0) # ZeroVec
    /\ fit.err = NoErr

\* C3 as stated: for every dataset and every ridge > 0, ComputeFactors
\* succeeds.
C3_RidgeAlwaysSucceeds ==
    (pc = "fitted" /\ QSign(ridge) > 0) => fit.err = NoErr

\* Whether f fits all five rows: sum_j f[j] * delta[j] = calibration weight.
HasFit(c, f) ==
    \A k \in 0..4 : ComputeWeight("exact", Measurements(c)[k], c.Zero, f) = c.CalibrationWeight

FitCandidates == [0..3 -> {Q(1), Q(2)}]

Ones == V4(<<1, 1, 1, 1>>)

\* C4 (as amended): with ridge = 0 and some f* fitting all five rows,
\* ComputeFactors returns f* and main's diagnostics give RSS = 0 and
\* calibration_ok = true whenever no rounding error is incurred; in the
\* concrete scenario det(A) > 0, and the factors are [1,1,1,1] when no
\* rounding error is incurred.
C4_ExactFitRecoveryUnrounded ==
    /\ (pc \in {"fitted", "reported"} /\ ridge = Zero /\ exact) =>
          \A f \in FitCandidates :
              (HasFit(cal, f) /\ ~DetRun("exact", A).zeroPivot) =>
                  /\ fit.err = NoErr
                  /\ fit.factors = f
                  /\ pc = "reported" =>
                        diag.rss = Zero /\ CalibrationOK(arith, diag.residualVar)
    /\ (pc = "reported" /\ cal = Scenario) =>
          /\ QSign(diag.detA) > 0
          /\ exact => fit.factors = Ones

C4_Witness ==
    /\ pc = "reported" /\ ridge = Zero /\ exact /\ arith = "round"
    /\ \E f \in FitCandidates : HasFit(cal, f) /\ fit.factors = f
    /\ diag.rss = Zero /\ CalibrationOK(arith, diag.residualVar)
    /\ QSign(diag.detA) > 0

\* C4 as stated: with ridge = 0 and some f* fitting all five rows,
\* ComputeFactors returns f*, RSS = 0 and calibration_ok = true; in the
\* concrete scenario the factors are [1,1,1,1] and det(A) > 0.
C4_ExactFitRecovery ==
    /\ (pc = "reported" /\ ridge = Zero) =>
          \A f \in FitCandidates :
              (HasFit(cal, f) /\ ~DetRun("exact", A).zeroPivot) =>
                  /\ fit.factors = f
                  /\ diag.rss = Zero /\ CalibrationOK(arith, diag.residualVar)
    /\ (pc = "reported" /\ cal = Scenario) =>
          fit.factors = Ones /\ QSign(diag.detA) > 0

\* The normal system of the dataset without ridge.
Unregularized == BuildNormal(arith, cal, Zero)

\* C5 (as amended): the A returned by ComputeFactors differs from the
\* unregularized X^T X only on the diagonal, each diagonal entry is the
\* float64 sum of the X^T X entry and ridge, every off-diagonal entry is
\* unchanged, and b is the same for all ridge values.
C5_RidgeFrame ==
    pc = "solve" =>
        /\ \A i \in 0..3, j \in 0..3 :
              A[i][j] = IF i = j THEN Rnd(arith, QAdd(Unregularized.A[i][i], ridge))
                        ELSE Unregularized.A[i][j]
        /\ \A r2 \in Ridges :
              /\ BuildNormal(arith, cal, r2).b = b
              /\ \A i \in 0..3, j \in 0..3 :
                    i # j => BuildNormal(arith, cal, r2).A[i][j] = A[i][j]

C5_Witness ==
    /\ pc = "solve" /\ QSign(ridge) > 0 /\ arith = "round"
    /\ \A i \in 0..3 : A[i][i] = QAdd(Unregularized.A[i][i], ridge)
    /\ A[0][1] # Zero
    /\ b = Unregularized.b

\* C5 as stated: each diagonal entry equals the X^T X entry plus exactly
\* ridge.
C5_RidgeAddsExactly ==
    pc = "solve" =>
        \A i \in 0..3 : A[i][i] = QAdd(Unregularized.A[i][i], ridge)

\* C8: ComputeFactors fails exactly when solve4x4 failed on the built
\* (A, b), with the solver's error as the cause and no factors, and main
\* then exits with status 1 without printing factors, computing
\* diagnostics or writing output.txt or the JSON result.
C8_SolverErrorPropagates ==
    /\ pc \in {"fitted", "reported", "exit"} =>
          /\ (fit.err # NoErr) = (sol.err # "")
          /\ fit.err # NoErr => fit.err.cause = sol.err /\ fit.factors = ZeroVec
    /\ (pc = "exit" /\ sol.err # "") =>
          /\ out.exit = 1
          /\ out.stdout = <<>>
          /\ out.files = {}
          /\ diag = NoDiag
          /\ Len(out.stderr) = 1 /\ out.stderr[1].err.cause = sol.err

C8_Witness ==
    /\ pc = "exit" /\ sol.err = ErrZeroPivot
    /\ fit.err.cause = ErrZeroPivot
    /\ out.exit = 1 /\ out.stdout = <<>> /\ out.files = {}

\* The estimate of calibration row k and the sum over rows k..4 of
\* (weight - estimate)^2, as real numbers.
EstimateOfRow(c, f, k) ==
    QAdd(QAdd(QMul(f[0], Delta(c, k)[0]), QMul(f[1], Delta(c, k)[1])),
         QAdd(QMul(f[2], Delta(c, k)[2]), QMul(f[3], Delta(c, k)[3])))

SquaredResidual(c, f, k) ==
    QMul(QSub(c.CalibrationWeight, EstimateOfRow(c, f, k)),
         QSub(c.CalibrationWeight, EstimateOfRow(c, f, k)))

RECURSIVE SumSquares(_, _, _)
SumSquares(c, f, k) ==
    IF k > 4 THEN Zero ELSE QAdd(SquaredResidual(c, f, k), SumSquares(c, f, k + 1))

\* C11: in every run that reaches the diagnostics, df is 5 - 4 = 1 and
\* positive, so the fallback branch is not taken; residualVar is rss / df and
\* hence rss itself; rss is the sum over the five calibration rows of
\* (weight - estimate)^2 (that very number when no step rounds); detA is
\* det4x4 of the A that ComputeFactors returned, the ridge included; and
\* errorDet is the float64 product of detA and residualVar.
C11_DiagnosticsOfFit ==
    pc = "reported" =>
        /\ fit.err = NoErr
        /\ diag.df = Q(1)
        /\ QSign(diag.df) > 0
        /\ diag.residualVar = Div(arith, diag.rss, diag.df)
        /\ diag.residualVar = diag.rss
        /\ exact => diag.rss = SumSquares(cal, fit.factors, 0)
        /\ A = ApplyRidge(arith, Unregularized.A, ridge)
        /\ diag.detA = det4x4(arith, A)
        /\ diag.errorDet = Mul(arith, diag.detA, diag.residualVar)

C11_Witness ==
    /\ pc = "reported" /\ arith = "round"
    /\ QSign(ridge) > 0 /\ A # Unregularized.A
    /\ diag.rss # Zero /\ diag.errorDet # Zero
    /\ diag.detA # det4x4(arith, Unregularized.A)

\* ------------------------------------------- solve4x4 and det4x4 alone
\* The callers of solve4x4 and det4x4 may pass any matrix: integer matrices
\* with and without pivot ties, row swaps and zero columns, and a diagonal
\* matrix whose pivot product leaves the float64 range.
Mat(t) == [i \in 0..3 |-> V4(t[i + 1])]

Tiny == [i \in 0..3 |-> [j \in 0..3 |-> IF i = j THEN Norm(1, 1, -7, 0) ELSE Zero]]

IntMatrices ==
    {<<<<2, 1, -2, -1>>, <<-1, -2, -1, 2>>, <<1, 2, -1, 1>>, <<0, 1, 1, -1>>>>,
     <<<<0, 0, 2, 1>>, <<2, 1, -2, -2>>, <<0, 1, -2, -2>>, <<0, 2, 1, 0>>>>,
     <<<<-3, -2, 2, 2>>, <<1, -3, 1, 1>>, <<0, -3, -2, -3>>, <<1, 3, -2, -1>>>>,
     <<<<1, 1, 1, 0>>, <<0, 2, 0, 4>>, <<0, 1, -1, 2>>, <<-2, -1, 2, 0>>>>,
     <<<<-2, 0, 1, 2>>, <<0, 4, -2, 0>>, <<0, 2, -2, -1>>, <<0, 1, 0, 1>>>>,
     <<<<1, 0, -1, -1>>, <<1, 1, 1, 1>>, <<1, -1, 0, 0>>, <<-1, -1, 1, 0>>>>,
     <<<<1, 0, 3, 3>>, <<3, 3, -1, -3>>, <<1, 0, 2, 1>>, <<-1, 2, -3, 3>>>>,
     <<<<0, 2, -2, 0>>, <<0, 0, 1, 1>>, <<0, 2, 0, 2>>, <<0, -1, 1, -2>>>>,
     <<<<0, 0, -1, 1>>, <<1, 1, -1, -1>>, <<0, 0, -1, 0>>, <<0, 0, -1, 1>>>>,
     <<<<-1, 0, -1, 0>>, <<1, -1, 1, 0>>, <<0, 1, 0, -1>>, <<-2, 0, -2, 0>>>>,
     <<<<1, 0, 1, 0>>, <<0, 0, -1, 0>>, <<0, -1, 1, 0>>, <<2, 0, 1, 0>>>>,
     <<<<0, 2, 0, 1>>, <<1, -2, 1, 1>>, <<1, -1, 2, 0>>, <<-1, -1, -2, -1>>>>,
     <<<<-2, 2, 1, 1>>, <<-1, -1, 0, 1>>, <<-3, 2, 2, 0>>, <<-1, 2, 0, 2>>>>}

Matrices == {Mat(t) : t \in IntMatrices} \cup {Tiny}

Rhs == {V4(<<1, 1, 1, 1>>), V4(<<4, 0, 2, 1>>)}

\* A caller about to call solve4x4(A, b).
InitSolve ==
    /\ arith \in Ariths
    /\ A \in Matrices
    /\ b \in Rhs
    /\ pc = "solve"
    /\ exact = TRUE
    /\ cal = NoCal /\ ridge = Zero /\ aug = Augment(ZeroMat, ZeroVec)
    /\ col = 0 /\ swaps = 0
    /\ sol = NoSol /\ fit = NoFit /\ diag = NoDiag /\ out = NoOut
    /\ detA = NoDet /\ detSwap = NoSwap /\ est = NoEst

\* det4x4(A) after the solve.
Determinant ==
    /\ pc = "solved"
    /\ detA' = DetRun(arith, A)
    /\ pc' = "det"
    /\ UNCHANGED <<arith, exact, cal, ridge, A, b, aug, col, swaps, sol, fit, diag, out,
                   detSwap, est>>

\* det4x4 of A with rows i and j exchanged.
SwapDeterminant ==
    /\ pc = "det"
    /\ \E i \in 0..3, j \in 0..3 :
          /\ i < j
          /\ detSwap' = [i |-> i, j |-> j, run |-> DetRun(arith, SwapRows(A, i, j))]
    /\ pc' = "swapdet"
    /\ UNCHANGED <<arith, exact, cal, ridge, A, b, aug, col, swaps, sol, fit, diag, out,
                   detA, est>>

NextSolve ==
    \/ SolveEntry
    \/ EliminateColumn
    \/ ZeroPivot
    \/ BackSubstitution
    \/ Determinant
    \/ SwapDeterminant

SpecSolve == InitSolve /\ [][NextSolve]_vars

\* -------------------------------------------- properties of the solver
\* Row i of m times x, in exact arithmetic.
RowProduct(m, x, i) ==
    QAdd(QAdd(QMul(m[i][0], x[0]), QMul(m[i][1], x[1])),
         QAdd(QMul(m[i][2], x[2]), QMul(m[i][3], x[3])))

\* C1: whenever solve4x4(A, b) returns without error, and its arithmetic is
\* exact, the returned x satisfies each of the four equations of A x = b,
\* whichever row swaps the partial pivoting made.
C1_SolutionSatisfiesSystem ==
    (pc = "solved" /\ sol.err = "" /\ exact) =>
        \A i \in 0..3 : RowProduct(A, sol.x, i) = b[i]

C1_Witness ==
    /\ pc = "solved" /\ sol.err = "" /\ exact
    /\ swaps >= 2
    /\ \A i \in 0..3 : RowProduct(A, sol.x, i) = b[i]

\* Whether the elimination of m under mode, from column c on, never
\* finds two rows tied for the maximal absolute value of a column.
RECURSIVE TieFree(_, _, _)
TieFree(mode, m, c) ==
    IF c > 3 THEN TRUE
    ELSE LET top == MaxAbs(m, c)
         IN  IF top = Zero THEN TRUE
             ELSE /\ Cardinality({r \in c..3 : abs(m[r][c]) = top}) = 1
                  /\ TieFree(mode, ForwardStep(mode, m, c), c + 1)

\* C7 (as amended): det4x4 of A with two distinct rows swapped is the
\* negation of det4x4(A) whenever no column of the elimination has two rows
\* tied for the pivot, or the arithmetic is exact; a zero pivot gives 0 for
\* both.
C7_RowSwapNegatesUntied ==
    (pc = "swapdet" /\ (arith = "exact" \/ TieFree(arith, A, 0))) =>
        detSwap.run.det = QNeg(detA.det)

C7_Witness ==
    /\ pc = "swapdet" /\ arith = "round" /\ TieFree(arith, A, 0)
    /\ detA.det # Zero
    /\ detA.det # det4x4("exact", A)
    /\ detSwap.run.det = QNeg(detA.det)

\* C7 as stated: for every matrix and every pair of distinct rows the
\* swapped determinant is the negation of det4x4(A).
C7_RowSwapNegates ==
    pc = "swapdet" => detSwap.run.det = QNeg(detA.det)

\* C9 (as amended): solve4x4(A, b) returns the singular-matrix error exactly
\* when det4x4(A) leaves by its zero-pivot return, and det4x4 then returns
\* 0; whether solve4x4 fails does not depend on b.
C9_ErrorIffZeroPivotReturn ==
    pc = "det" =>
        /\ (sol.err # "") = detA.zeroPivot
        /\ (sol.err # "" => sol.err = ErrZeroPivot /\ detA.det = Zero)
        /\ \A b2 \in Rhs : solve4x4(arith, A, b2).err = sol.err

C9_Witness ==
    /\ pc = "det" /\ arith = "round"
    /\ sol.err = ErrZeroPivot /\ col = 3
    /\ detA.zeroPivot /\ detA.det = Zero

\* C9 as stated: solve4x4 returns the singular-matrix error if and only if
\* det4x4(A) returns 0.
C9_ErrorIffDeterminantZero ==
    pc = "det" => ((sol.err # "") = (detA.det = Zero))

\* C10: when forward elimination has completed its four columns, every
\* diagonal entry of aug is non-zero at the start of back substitution, and
\* solve4x4 never returns the back-substitution error.
C10_BackSubstitutionCheckUnreachable ==
    /\ pc = "backsub" => \A i \in 0..3 : aug[i][i] # Zero
    /\ sol.err # ErrBackSubstitution

C10_Witness ==
    /\ pc = "backsub"
    /\ DetRun("exact", A).zeroPivot
    /\ \A i \in 0..3 : aug[i][i] # Zero

\* ------------------------------------------------- ComputeWeight alone
\* A caller estimating the weight of readings r1, r2, r1 + r2, of the zero
\* reference itself and of the all-zero reading, under fixed zero and factors.
FactorSets ==
    {Ones, V4(<<2, 1, 1, 2>>), V4Scaled(<<17, 17, 17, 17>>, -4), V4Scaled(<<21, 21, 3, 3>>, -4)}

AdcReadings == {<<9, 7, 9, 5>>, <<8, 6, 8, 4>>, <<12, 6, 9, 7>>}

InitWeight ==
    /\ arith \in Ariths
    /\ \E z \in Zeros, f \in FactorSets, r1 \in AdcReadings, r2 \in AdcReadings :
          est = [zero |-> V4(z), factors |-> f,
                 todo |-> <<V4(r1), V4(r2), V4(TAdd(r1, r2)), V4(z), ZeroVec>>,
                 w |-> <<>>]
    /\ pc = "weight"
    /\ exact = TRUE
    /\ cal = NoCal /\ ridge = Zero
    /\ A = ZeroMat /\ b = ZeroVec /\ aug = Augment(ZeroMat, ZeroVec)
    /\ col = 0 /\ swaps = 0
    /\ sol = NoSol /\ fit = NoFit /\ diag = NoDiag /\ out = NoOut
    /\ detA = NoDet /\ detSwap = NoSwap

\* One call ComputeWeight(adc, zero, factors) on the next reading.
ComputeWeightCall ==
    /\ pc = "weight"
    /\ est.todo # <<>>
    /\ LET w == ComputeWeight(arith, Head(est.todo), est.zero, est.factors)
       IN  /\ est' = [est EXCEPT !.todo = Tail(@), !.w = Append(@, w)]
           /\ exact' = (exact /\ Same(w, ComputeWeight("exact", Head(est.todo), est.zero,
                                                       est.factors)))
    /\ pc' = IF Len(est.todo) = 1 THEN "weighed" ELSE "weight"
    /\ UNCHANGED <<arith, cal, ridge, A, b, aug, col, swaps, sol, fit, diag, out,
                   detA, detSwap>>

NextWeight == ComputeWeightCall

SpecWeight == InitWeight /\ [][NextWeight]_vars

\* C6 (as amended): ComputeWeight(r1+r2, zero, f) = ComputeWeight(r1, zero, f)
\* + ComputeWeight(r2, zero, f) - ComputeWeight(0, zero, f), with 0 the
\* all-zero reading, whenever no rounding error is incurred; the estimate of
\* the zero reference itself is 0.
C6_AffineAboutOrigin ==
    pc = "weighed" =>
        /\ est.w[4] = Zero
        /\ exact => est.w[3] = QSub(QAdd(est.w[1], est.w[2]), est.w[5])

C6_Witness ==
    /\ pc = "weighed" /\ exact /\ arith = "round"
    /\ est.w[5] # Zero
    /\ est.w[1] # est.w[2]
    /\ est.w[3] = QSub(QAdd(est.w[1], est.w[2]), est.w[5])

\* C6 as stated: ComputeWeight(r1+r2, zero, f) = ComputeWeight(r1, zero, f)
\* + ComputeWeight(r2, zero, f) - ComputeWeight(zero, zero, f).
C6_AffineAboutZero ==
    pc = "weighed" => est.w[3] = QSub(QAdd(est.w[1], est.w[2]), est.w[4])

====
